---- MODULE Spec2Model ----
(***************************************************************************)
(* Model of buildscripts/update_test_lifecycle.py: the validation of the   *)
(* configuration, the batching of the tests, the classification of tests   *)
(* as reliable / unreliable from their execution history, the tag          *)
(* mutations of update_tags, the pruning of cleanup_tags and the           *)
(* conditional write of the tag file at the end of main().                 *)
(*                                                                         *)
(* Strings are sequences of characters; an identifier such as the task     *)
(* name "A" is the one-character sequence <<"A">>, and the token           *)
(* "unreliable" is treated as one character.  Python values that may be a  *)
(* string, None or a tf.Wildcard / tf.Missing sentinel are records         *)
(* [kind, chars].                                                          *)
(***************************************************************************)
EXTENDS Integers, Sequences, FiniteSets, TLC

VARIABLES
    pc,             \* position of main(): "validate", "aborted", "for", "while",
                    \* "body" (create_batch_groups), "batch", "add", "remove",
                    \* "return", "persist", "done"; "fn_call" / "fn_done" /
                    \* "fn_split" for SpecFn
    config_tuple,   \* the Config tuple as validate_config() reads it
    config,         \* the same Config as update_tags() reads it (whole numbers)
    batch_size,     \* options.batch_size
    dir_groups,     \* create_batch_groups: the test groups not yet iterated
    test_group,     \* create_batch_groups: the local 'test_group'
    batch_groups,   \* create_batch_groups: the local 'batch_groups'; its
                    \* return value is the 'test_groups' of main()
    outcomes,       \* history: per batch reached, "skipped" or "processed"
    lifecycle,      \* TagsConfig: test pattern -> set of tags ("js_test" kind)
    modified,       \* TagsConfig dirty flag, read by is_modified()
    written,        \* TRUE once write_yaml_file() has been called
    evg_conf,       \* EvergreenProjectConfig: the CI topology
    files,          \* test patterns for which globstar.glob() finds a file
    batch,          \* index into test_groups of the batch being processed
    report,         \* update_tags: entries of the local 'report'
    grouped_entries,\* update_tags: the local 'grouped_entries'
    i,              \* update_tags: index of the granularity pass
    before,         \* history: 'lifecycle' before the latest step
    at_call,        \* history: 'lifecycle' when update_tags was called
    history,        \* history: the raw entries update_tags was called with
    added,          \* history: <<test, tag>> pairs add_tag() added in this run
    loaded,         \* history: 'lifecycle' as loaded from the tag file
    fetched,        \* history: TRUE once a batch's history has been fetched
    fn_args,        \* SpecFn: arguments <<task, variant, distro>>
    fn_result,      \* SpecFn: the tag returned by unreliable_tag
    fn_split        \* SpecFn: the tuple returned by _split_tag(fn_result)

vars == <<pc, lifecycle, modified, written, evg_conf, files, batch, report,
          grouped_entries, i, before, at_call, history, added, loaded,
          fetched, fn_args, fn_result, config_tuple, config, batch_size,
          dir_groups, test_group, batch_groups, outcomes, fn_split>>

\* What main() fixes before its loop over the batches.
setup_vars == <<config_tuple, config, batch_size, dir_groups, test_group,
                batch_groups>>

----------------------------------------------------------------------------
(* Values *)

Str(chars) == [kind |-> "str", chars |-> chars]

None == [kind |-> "None", chars |-> <<>>]

Wildcard(kind) == [kind |-> "Wildcard", chars |-> <<kind>>]

Missing == [kind |-> "Missing", chars |-> <<>>]

\* isinstance(component_value, (tf.Wildcard, tf.Missing))
IsSentinel(v) == v.kind \in {"Wildcard", "Missing"}

\* Python truthiness of a value that is a string or None
Truthy(v) == v.kind = "str" /\ v.chars # <<>>

TaskA == Str(<<"A">>)
TaskB == Str(<<"B">>)
VariantV1 == Str(<<"v1">>)
VariantV2 == Str(<<"v2">>)
DistroD1 == Str(<<"d1">>)
DistroD2 == Str(<<"d2">>)

----------------------------------------------------------------------------
(* Tag construction: unreliable_tag, and its inverse _split_tag *)

Bar == <<"|">>

Unreliable == <<"unreliable">>

\* A mutant of unreliable_tag: a sentinel is skipped instead of ending the tag.
unreliable_tag_skip(task, variant, distro) ==
    Unreliable
      \o (IF IsSentinel(task) THEN <<>> ELSE Bar \o task.chars)
      \o (IF IsSentinel(variant) THEN <<>> ELSE Bar \o variant.chars)
      \o (IF IsSentinel(distro) THEN <<>> ELSE Bar \o distro.chars)

unreliable_tag(task, variant, distro) ==
    IF IsSentinel(task) THEN Unreliable
    ELSE IF IsSentinel(variant) THEN Unreliable \o Bar \o task.chars
    ELSE IF IsSentinel(distro) THEN Unreliable \o Bar \o task.chars \o Bar \o variant.chars
    ELSE Unreliable \o Bar \o task.chars \o Bar \o variant.chars \o Bar \o distro.chars

\* str.split("|"): the pieces between the separators, at least one piece
RECURSIVE SplitBar(_)
SplitBar(s) ==
    IF \A k \in 1..Len(s) : s[k] # "|" THEN <<s>>
    ELSE LET k == CHOOSE k \in 1..Len(s) :
                      s[k] = "|" /\ \A j \in 1..(k - 1) : s[j] # "|"
         IN <<SubSeq(s, 1, k - 1)>> \o SplitBar(SubSeq(s, k + 1, Len(s)))

\* A mutant of _split_tag: a tag of four elements is rejected.
_split_tag_three_elements(tag) ==
    LET elements == SplitBar(tag)
        length == Len(elements)
    IN IF elements[1] # Unreliable \/ length < 2 \/ length > 3
       THEN <<None, None, None>>
       ELSE [k \in 1..3 |-> IF k + 1 <= length THEN Str(elements[k + 1]) ELSE None]

_split_tag(tag) ==
    LET elements == SplitBar(tag)
        length == Len(elements)
    IN IF elements[1] # Unreliable \/ length < 2 \/ length > 4
       THEN <<None, None, None>>
       ELSE [k \in 1..3 |-> IF k + 1 <= length THEN Str(elements[k + 1]) ELSE None]

----------------------------------------------------------------------------
(* Configuration.  Failure rates are rationals [n, d]; the thresholds are  *)
(* given in hundredths, so 0.2 is Rate(20, 100).                           *)

Rate(n, d) == [n |-> n, d |-> d]

\* a >= b and a <= b on rationals with positive denominators
RateGE(a, b) == a.n * b.d >= b.n * a.d
RateLE(a, b) == a.n * b.d <= b.n * a.d

Rates(acceptable, unacceptable) ==
    [acceptable |-> Rate(acceptable, 100), unacceptable |-> Rate(unacceptable, 100)]

\* The Config tuple main() builds from the command line: the default
\* thresholds, with --taskFailRates 0.1 0.2.
ScenarioConfig ==
    [test_fail_rates |-> Rates(10, 30),
     task_fail_rates |-> Rates(10, 20),
     variant_fail_rates |-> Rates(20, 40),
     distro_fail_rates |-> Rates(20, 40),
     reliable_min_runs |-> 5,
     reliable_time_period |-> 7,
     unreliable_min_runs |-> 20,
     unreliable_time_period |-> 28]

\* main(): "config = Config(...)", the argument of update_tags()
Config == config

\* datetime.timedelta, normalised: whole days and the seconds beyond them
timedelta(days, seconds) == [days |-> days, seconds |-> seconds]

\* The Config tuple as validate_config() reads it: a minimum number of runs
\* is a number n / d (an int, or a float that may not be whole), a time
\* period is a timedelta.
ConfigTuple(c) ==
    [c EXCEPT !.reliable_min_runs = Rate(@, 1),
              !.unreliable_min_runs = Rate(@, 1),
              !.reliable_time_period = timedelta(@, 0),
              !.unreliable_time_period = timedelta(@, 0)]

\* The Config tuple as update_tags() reads it: numbers of runs and of days.
WholeConfig(c) ==
    [c EXCEPT !.reliable_min_runs = @.n \div @.d,
              !.unreliable_min_runs = @.n \div @.d,
              !.reliable_time_period = @.days,
              !.unreliable_time_period = @.days]

\* A mutant of validate_fail_rates: the order of the pair is not checked.
validate_fail_rates_any_order(fail_rates) ==
    IF \/ ~RateGE(fail_rates.acceptable, Rate(0, 1))
       \/ ~RateLE(fail_rates.acceptable, Rate(1, 1))
    THEN "ValueError"
    ELSE IF \/ ~RateGE(fail_rates.unacceptable, Rate(0, 1))
            \/ ~RateLE(fail_rates.unacceptable, Rate(1, 1))
    THEN "ValueError"
    ELSE "ok"

\* validate_config, the body of its loop over the four pairs of rates
validate_fail_rates(fail_rates) ==
    IF \/ ~RateGE(fail_rates.acceptable, Rate(0, 1))
       \/ ~RateLE(fail_rates.acceptable, Rate(1, 1))
    THEN "ValueError"
    ELSE IF \/ ~RateGE(fail_rates.unacceptable, Rate(0, 1))
            \/ ~RateLE(fail_rates.unacceptable, Rate(1, 1))
    THEN "ValueError"
    ELSE IF ~RateLE(fail_rates.acceptable, fail_rates.unacceptable)
    THEN "ValueError"
    ELSE "ok"

\* validate_config, the body of its loop over the two minimum numbers of runs
validate_min_runs(min_runs) ==
    IF RateLE(min_runs, Rate(0, 1)) THEN "ValueError"
    ELSE IF min_runs.n % min_runs.d # 0 THEN "ValueError"
    ELSE "ok"

\* validate_config, the body of its loop over the two time periods
validate_time_period(time_period) ==
    IF time_period.days <= 0 THEN "ValueError"
    ELSE IF time_period.seconds > 0 THEN "ValueError"
    ELSE "ok"

\* validate_config(config): "ok" when it returns, else the exception raised
validate_config(c) ==
    IF \E fail_rates \in {c.test_fail_rates, c.task_fail_rates,
                          c.variant_fail_rates, c.distro_fail_rates} :
          validate_fail_rates(fail_rates) # "ok"
    THEN "ValueError"
    ELSE IF \E min_runs \in {c.reliable_min_runs, c.unreliable_min_runs} :
               validate_min_runs(min_runs) # "ok"
    THEN "ValueError"
    ELSE IF \E time_period \in {c.reliable_time_period, c.unreliable_time_period} :
               validate_time_period(time_period) # "ok"
    THEN "ValueError"
    ELSE "ok"

----------------------------------------------------------------------------
(* Reliability classifier *)

\* Mutants: a strict comparison of the failure rates.
unreliable_test_strict(test_fr, unacceptable_fr, test_runs, min_run) ==
    test_runs >= min_run /\ ~RateLE(test_fr, unacceptable_fr)

reliable_test_strict(test_fr, acceptable_fr, test_runs, min_run) ==
    test_runs < min_run \/ ~RateGE(test_fr, acceptable_fr)

\* A mutant of reliable_test: too few runs no longer count as reliable.
reliable_test_rate_only(test_fr, acceptable_fr, test_runs, min_run) ==
    test_runs >= min_run /\ RateLE(test_fr, acceptable_fr)

unreliable_test(test_fr, unacceptable_fr, test_runs, min_run) ==
    test_runs >= min_run /\ RateGE(test_fr, unacceptable_fr)

reliable_test(test_fr, acceptable_fr, test_runs, min_run) ==
    test_runs < min_run \/ RateLE(test_fr, acceptable_fr)

\* update_lifecycle receives the predicate as its 'method_test' argument.
method_test(name, test_fr, fail_rate, test_runs, min_run) ==
    IF name = "unreliable_test"
    THEN unreliable_test(test_fr, fail_rate, test_runs, min_run)
    ELSE reliable_test(test_fr, fail_rate, test_runs, min_run)

----------------------------------------------------------------------------
(* tf.Report and tf.ReportEntry: the aggregation of the execution history. *)
(* An entry is [test, task, variant, distro, start_date, end_date,         *)
(* num_pass, num_fail]; dates are day numbers.                             *)

\* ReportEntry.fail_rate: 0 when there was no run
fail_rate(entry) ==
    IF entry.num_pass + entry.num_fail = 0 THEN Rate(0, 1)
    ELSE Rate(entry.num_fail, entry.num_pass + entry.num_fail)

RECURSIVE SumOf(_, _)
SumOf(entries, field) ==
    IF entries = {} THEN 0
    ELSE LET e == CHOOSE e \in entries : TRUE
         IN e[field] + SumOf(entries \ {e}, field)

MinOf(S) == CHOOSE x \in S : \A y \in S : x <= y
MaxOf(S) == CHOOSE x \in S : \A y \in S : x >= y

TEST == {"test"}
TEST_TASK == {"test", "task"}
TEST_TASK_VARIANT == {"test", "task", "variant"}
TEST_TASK_VARIANT_DISTRO == {"test", "task", "variant", "distro"}

\* The key an entry is grouped under: the components kept, a Wildcard for
\* each component left out, and the day when the grouping is daily.
GroupKey(entry, components, daily) ==
    [test |-> IF "test" \in components THEN entry.test ELSE Wildcard("tests"),
     task |-> IF "task" \in components THEN entry.task ELSE Wildcard("tasks"),
     variant |-> IF "variant" \in components THEN entry.variant ELSE Wildcard("variants"),
     distro |-> IF "distro" \in components THEN entry.distro ELSE Wildcard("distros"),
     day |-> IF daily THEN entry.start_date ELSE 0]

\* Report.summarize_by(components, time_period): one entry per key, with the
\* pass and fail counts of the key's entries added up.
summarize_by(entries, components, daily) ==
    { LET members == {e \in entries : GroupKey(e, components, daily) = key}
      IN [test |-> key.test, task |-> key.task,
          variant |-> key.variant, distro |-> key.distro,
          start_date |-> MinOf({e.start_date : e \in members}),
          end_date |-> MaxOf({e.end_date : e \in members}),
          num_pass |-> SumOf(members, "num_pass"),
          num_fail |-> SumOf(members, "num_fail")]
      : key \in {GroupKey(e, components, daily) : e \in entries} }

\* Report.end_date
end_date(entries) == MaxOf({e.end_date : e \in entries})

----------------------------------------------------------------------------
(* ci_tags.TagsConfig: the tags of each test pattern.  A pattern with no   *)
(* tag is not in the configuration.                                        *)

Patterns == {"T", "U", "S"}

add_tag(lc, test_pattern, tag) ==
    [lc EXCEPT ![test_pattern] = @ \cup {tag}]

remove_tag(lc, test_pattern, tag) ==
    [lc EXCEPT ![test_pattern] = @ \ {tag}]

remove_test_pattern(lc, test_pattern) ==
    [lc EXCEPT ![test_pattern] = {}]

get_test_patterns(lc) == {p \in DOMAIN lc : lc[p] # {}}

\* TagsConfig.is_modified(): the dirty flag
is_modified(flag) == flag

----------------------------------------------------------------------------
(* update_lifecycle and the passes of update_tags *)

RECURSIVE ApplyTags(_, _, _)
\* the add_tag / remove_tag calls of update_lifecycle, one summary at a time
ApplyTags(lc, hits, add_tags) ==
    IF hits = {} THEN lc
    ELSE LET summary == CHOOSE h \in hits : TRUE
             update_tag == unreliable_tag(summary.task, summary.variant, summary.distro)
         IN ApplyTags(IF add_tags THEN add_tag(lc, summary.test, update_tag)
                      ELSE remove_tag(lc, summary.test, update_tag),
                      hits \ {summary}, add_tags)

\* A mutant of update_lifecycle: the result of method_test is ignored.
update_lifecycle_always(lc, summaries, method, add_tags, rate, min_run) ==
    ApplyTags(lc, summaries, add_tags)

update_lifecycle(lc, summaries, method, add_tags, rate, min_run) ==
    ApplyTags(lc,
              {summary \in summaries :
                   method_test(method, fail_rate(summary), rate,
                               summary.num_pass + summary.num_fail, min_run)},
              add_tags)

\* The (components, rates) pairs update_tags enumerates, by pass index.
PassComponents(k) ==
    <<TEST_TASK_VARIANT_DISTRO, TEST_TASK_VARIANT, TEST_TASK, TEST>>[k + 1]

PassRates(k) ==
    <<Config.distro_fail_rates, Config.variant_fail_rates,
      Config.task_fail_rates, Config.test_fail_rates>>[k + 1]

\* The entries of 'grouped' that start inside the time period ending at
\* the report's end date.
InPeriod(grouped, last_date, time_period) ==
    {entry \in grouped : entry.start_date >= last_date - time_period + 1}

\* A mutant of check_sequence: the reliable check runs first.
check_sequence_reversed == <<"remove", "add">>

\* The order of the two update_lifecycle calls of a pass.
check_sequence == <<"add", "remove">>

\* The mutable part of update_tags before the first check of pass k.
PassReport(k) == IF k > 0 THEN grouped_entries ELSE report

\* A mutant of PassGrouped: the grouping of a pass is not by day.
PassGrouped_not_daily(first) ==
    IF first THEN summarize_by(PassReport(i), PassComponents(i), FALSE)
    ELSE grouped_entries

\* "grouped_entries = report.summarize_by(components, time_period=tf.Report.DAILY)"
PassGrouped(first) ==
    IF first THEN summarize_by(PassReport(i), PassComponents(i), TRUE)
    ELSE grouped_entries

\* The position after a check: the other check of the pass, then the next
\* pass, then the return of update_tags.
AfterCheck(first) ==
    IF first THEN check_sequence[2]
    ELSE IF i < 3 THEN check_sequence[1] ELSE "return"

----------------------------------------------------------------------------
(* cleanup_tags *)

NoVariant == [name |-> None, task_names |-> {}, distros |-> {}]

\* EvergreenProjectConfig.get_variant(): None when there is no such variant
get_variant(conf, variant) ==
    IF \E v \in conf.variants : v.name = variant
    THEN CHOOSE v \in conf.variants : v.name = variant
    ELSE NoVariant

\* A mutant of _is_tag_still_relevant: the distro is not looked up.
_is_tag_still_relevant_no_distro(conf, tag) ==
    LET task == _split_tag(tag)[1]
        variant == _split_tag(tag)[2]
        variant_conf == get_variant(conf, variant)
    IN IF ~Truthy(task) \/ task \notin conf.task_names THEN FALSE
       ELSE IF Truthy(variant)
            THEN ~(variant_conf = NoVariant \/ task \notin variant_conf.task_names)
            ELSE TRUE

_is_tag_still_relevant(conf, tag) ==
    LET task == _split_tag(tag)[1]
        variant == _split_tag(tag)[2]
        distro == _split_tag(tag)[3]
        variant_conf == get_variant(conf, variant)
    IN IF ~Truthy(task) \/ task \notin conf.task_names THEN FALSE
       ELSE IF Truthy(variant)
            THEN IF variant_conf = NoVariant \/ task \notin variant_conf.task_names
                 THEN FALSE
                 ELSE ~(Truthy(distro) /\ distro \notin variant_conf.distros)
            ELSE TRUE

\* A mutant of cleanup_tags: a pattern that matches no file is kept.
cleanup_tags_keep_stale(lc, conf, matching) ==
    [p \in DOMAIN lc |-> {tag \in lc[p] : _is_tag_still_relevant(conf, tag)}]

cleanup_tags(lc, conf, matching) ==
    [p \in DOMAIN lc |->
        IF p \notin get_test_patterns(lc) THEN lc[p]
        ELSE IF p \notin matching THEN remove_test_pattern(lc, p)[p]
        ELSE {tag \in lc[p] : _is_tag_still_relevant(conf, tag)}]

----------------------------------------------------------------------------
(* The inputs of a run *)

MaxEntries == 2

Days == {10, 30}

Counts == {<<16, 6>>, <<3, 0>>, <<12, 8>>, <<9, 1>>}

\* The (task, variant, distro) combinations a test's executions come from,
\* and the pass / fail counts of one execution record.
Combinations(test) ==
    IF test = "T"
    THEN {<<TaskA, VariantV1, DistroD1>>, <<TaskA, VariantV1, Missing>>,
          <<TaskA, Missing, DistroD1>>}
    ELSE {<<TaskA, VariantV1, Missing>>}

RecordCounts(test) == IF test = "T" THEN Counts ELSE {<<16, 6>>, <<3, 0>>}

RecordDays(test) == IF test = "T" THEN Days ELSE {30}

\* The execution records get_history_by_revision() may return for a test.
Records(test) ==
    {[test |-> test, task |-> c[1], variant |-> c[2], distro |-> c[3],
      start_date |-> d, end_date |-> d, num_pass |-> n[1], num_fail |-> n[2]]
       : c \in Combinations(test), d \in RecordDays(test), n \in RecordCounts(test)}

RECURSIVE UpTo(_, _)
\* the subsets of S with at most k elements
UpTo(S, k) ==
    IF k = 0 THEN {{}}
    ELSE UpTo(S, k - 1) \cup {s \cup {e} : s \in UpTo(S, k - 1), e \in S}

\* The non-empty histories of a batch of tests.
Histories(tests) ==
    UpTo(UNION {Records(t) : t \in tests}, MaxEntries) \ {{}}

\* main(): "test_groups = create_batch_groups(create_test_groups(tests),
\* options.batch_size)"
test_groups == batch_groups

Tag1(task) == unreliable_tag(task, Missing, Missing)
Tag2(task, variant) == unreliable_tag(task, variant, Missing)
Tag3(task, variant, distro) == unreliable_tag(task, variant, distro)

\* The tag file as loaded: the tags of test T; S is a pattern whose file
\* may have been deleted.
InitialTags ==
    {{}, {Tag3(TaskA, VariantV1, DistroD1), Tag2(TaskA, VariantV1)},
     {Unreliable, Tag1(TaskA), Tag1(TaskB)}}

InitialLifecycles ==
    {[p \in Patterns |-> IF p = "T" THEN tags
                         ELSE IF p = "S" THEN {Tag2(TaskA, VariantV1)} ELSE {}]
       : tags \in InitialTags}

Topology(tasks, variant_tasks, variant_distros) ==
    [task_names |-> tasks,
     variants |-> {[name |-> VariantV1, task_names |-> variant_tasks,
                    distros |-> variant_distros]}]

Topologies ==
    {Topology({TaskA}, {TaskA}, {DistroD1}),
     Topology({TaskA}, {TaskA}, {}),
     Topology({TaskA, TaskB}, {TaskB}, {DistroD1}),
     [task_names |-> {TaskA}, variants |-> {}]}

FileSets == {{"T", "U", "S"}, {"T", "U"}}

----------------------------------------------------------------------------
(* main() *)

\* A mutant of should_write: the file is written whatever is_modified() says.
should_write_always(flag) == TRUE

\* main(): "if lifecycle.is_modified(): write_yaml_file(...)"
should_write(flag) == is_modified(flag)

Init ==
    /\ pc = "batch"
    /\ lifecycle \in InitialLifecycles
    /\ loaded = lifecycle
    /\ before = lifecycle
    /\ at_call = lifecycle
    /\ modified = FALSE
    /\ written = FALSE
    /\ evg_conf \in Topologies
    /\ files \in FileSets
    /\ batch = 1
    /\ report = {}
    /\ grouped_entries = {}
    /\ i = 0
    /\ history = {}
    /\ added = {}
    /\ fetched = FALSE
    /\ fn_args = <<>>
    /\ fn_result = <<>>
    /\ config_tuple = ConfigTuple(ScenarioConfig)
    /\ config = ScenarioConfig
    /\ batch_size = 1
    /\ dir_groups = <<>>
    /\ test_group = <<>>
    /\ batch_groups = <<{"T"}, {"U"}>>
    /\ outcomes = <<>>
    /\ fn_split = <<>>

\* A mutant of SkipBatch: the loop over the batches ends at a batch without
\* an owning task.
SkipBatch_break ==
    /\ pc = "batch"
    /\ batch <= Len(test_groups)
    /\ batch' = Len(test_groups) + 1
    /\ before' = lifecycle
    /\ outcomes' = Append(outcomes, "skipped")
    /\ UNCHANGED <<pc, lifecycle, modified, written, evg_conf, files, report,
                   grouped_entries, i, at_call, history, added, loaded, fetched,
                   fn_args, fn_result, setup_vars, fn_split>>

\* "if not tasks": no task runs the tests of the batch; warn and continue
SkipBatch ==
    /\ pc = "batch"
    /\ batch <= Len(test_groups)
    /\ batch' = batch + 1
    /\ before' = lifecycle
    /\ UNCHANGED <<pc, lifecycle, modified, written, evg_conf, files, report,
                   grouped_entries, i, at_call, history, added, loaded, fetched,
                   fn_args, fn_result>>
    /\ outcomes' = Append(outcomes, "skipped")
    /\ UNCHANGED <<setup_vars, fn_split>>

\* get_history_by_revision(), tf.Report(history_data), call of update_tags
FetchHistory ==
    /\ pc = "batch"
    /\ batch <= Len(test_groups)
    /\ \E history_data \in Histories(test_groups[batch]) :
          /\ history' = history_data
          /\ report' = history_data
    /\ grouped_entries' = {}
    /\ i' = 0
    /\ pc' = check_sequence[1]
    /\ before' = lifecycle
    /\ at_call' = lifecycle
    /\ fetched' = TRUE
    /\ UNCHANGED <<lifecycle, modified, written, evg_conf, files, batch, added,
                   loaded, fn_args, fn_result>>
    /\ outcomes' = Append(outcomes, "processed")
    /\ UNCHANGED <<setup_vars, fn_split>>

\* One update_lifecycle call of pass i; the first call of a pass follows
\* the regrouping of the report.
Check(kind, method, add_tags, rate, min_run, time_period) ==
    LET first == (pc = check_sequence[1])
        rep == IF first THEN PassReport(i) ELSE report
        grouped == PassGrouped(first)
        summaries == summarize_by(InPeriod(grouped, end_date(rep), time_period),
                                  PassComponents(i), FALSE)
        lc == update_lifecycle(lifecycle, summaries, method, add_tags, rate, min_run)
    IN /\ pc = kind
       /\ report' = rep
       /\ grouped_entries' = grouped
       /\ lifecycle' = lc
       /\ before' = lifecycle
       /\ modified' = (modified \/ lc # lifecycle)
       /\ added' = IF add_tags
                   THEN added \cup UNION {{<<p, tag>> : tag \in lc[p] \ lifecycle[p]}
                                          : p \in Patterns}
                   ELSE added
       /\ i' = IF first THEN i ELSE i + 1
       /\ pc' = AfterCheck(first)
       /\ UNCHANGED <<written, evg_conf, files, batch, at_call, history, loaded, fetched,
                      fn_args, fn_result>>
       /\ UNCHANGED <<setup_vars, outcomes, fn_split>>

UnreliableCheck ==
    Check("add", "unreliable_test", TRUE, PassRates(i).unacceptable,
          Config.unreliable_min_runs, Config.unreliable_time_period)

ReliableCheck ==
    Check("remove", "reliable_test", FALSE, PassRates(i).acceptable,
          Config.reliable_min_runs, Config.reliable_time_period)

\* update_tags returns; the loop of main() moves to the next batch
Return ==
    /\ pc = "return"
    /\ pc' = "batch"
    /\ batch' = batch + 1
    /\ report' = {}
    /\ grouped_entries' = {}
    /\ history' = {}
    /\ i' = 0
    /\ before' = lifecycle
    /\ at_call' = lifecycle
    /\ UNCHANGED <<lifecycle, modified, written, evg_conf, files, added, loaded, fetched,
                   fn_args, fn_result>>
    /\ UNCHANGED <<setup_vars, outcomes, fn_split>>

Cleanup ==
    /\ pc = "batch"
    /\ batch > Len(test_groups)
    /\ lifecycle' = cleanup_tags(lifecycle, evg_conf, files)
    /\ modified' = (modified \/ lifecycle' # lifecycle)
    /\ before' = lifecycle
    /\ pc' = "persist"
    /\ UNCHANGED <<written, evg_conf, files, batch, report, grouped_entries, i,
                   at_call, history, added, loaded, fetched, fn_args, fn_result>>
    /\ UNCHANGED <<setup_vars, outcomes, fn_split>>

Persist ==
    /\ pc = "persist"
    /\ written' = should_write(modified)
    /\ pc' = "done"
    /\ before' = lifecycle
    /\ UNCHANGED <<lifecycle, modified, evg_conf, files, batch, report,
                   grouped_entries, i, at_call, history, added, loaded, fetched,
                   fn_args, fn_result>>
    /\ UNCHANGED <<setup_vars, outcomes, fn_split>>

Next ==
    \/ SkipBatch
    \/ FetchHistory
    \/ UnreliableCheck
    \/ ReliableCheck
    \/ Return
    \/ Cleanup
    \/ Persist

Spec == Init /\ [][Next]_vars

----------------------------------------------------------------------------
(* SpecUpdateTags: update_tags called on the history of each batch, from   *)
(* every loaded tag file.  update_tags reads neither the CI topology nor   *)
(* the test files, which are fixed here.                                   *)

InitUpdateTags ==
    /\ Init
    /\ evg_conf = Topology({TaskA}, {TaskA}, {DistroD1})
    /\ files = {"T", "U", "S"}

NextUpdateTags ==
    \/ FetchHistory
    \/ UnreliableCheck
    \/ ReliableCheck
    \/ Return

SpecUpdateTags == InitUpdateTags /\ [][NextUpdateTags]_vars

----------------------------------------------------------------------------
(* SpecMain: main() from validate_config(config) on, for bounded Config    *)
(* tuples, request batch sizes and groups of tests                         *)

MaxBatches == 3

\* failure rates, in hundredths
RateInputs == {-10, 0, 10, 30, 100, 110}

\* -1, 0, 1, 2.5, 5.0
MinRunsInputs == {Rate(-1, 1), Rate(0, 1), Rate(1, 1), Rate(5, 2), Rate(10, 2)}

\* -1 day, -12 hours, 0, 12 hours, 1 day, 36 hours
TimePeriodInputs ==
    {timedelta(-1, 0), timedelta(-1, 43200), timedelta(0, 0), timedelta(0, 43200),
     timedelta(1, 0), timedelta(1, 43200)}

RateFields ==
    {"test_fail_rates", "task_fail_rates", "variant_fail_rates", "distro_fail_rates"}

MinRunsFields == {"reliable_min_runs", "unreliable_min_runs"}

TimePeriodFields == {"reliable_time_period", "unreliable_time_period"}

\* The Config tuples validate_config is applied to: ScenarioConfig with one
\* pair of rates, one number of runs or one time period replaced.
ConfigInputs ==
    LET base == ConfigTuple(ScenarioConfig)
    IN {[base EXCEPT ![f] = Rates(a, u)]
          : f \in RateFields, a \in RateInputs, u \in RateInputs}
       \cup {[base EXCEPT ![f] = m] : f \in MinRunsFields, m \in MinRunsInputs}
       \cup {[base EXCEPT ![f] = t] : f \in TimePeriodFields, t \in TimePeriodInputs}

\* --requestBatchSize, an int
BatchSizes == {-1, 0, 1, 2}

\* create_test_groups(tests): the lists of tests of the directories
DirGroups == {<<<<"U", "S">>>>, <<<<"U">>, <<"S">>>>}

\* Python slices s[:n] and s[n:]; a negative n counts from the end
SliceEnd(s, n) ==
    IF n >= 0
    THEN (IF n < Len(s) THEN n ELSE Len(s))
    ELSE (IF Len(s) + n > 0 THEN Len(s) + n ELSE 0)

SliceTo(s, n) == SubSeq(s, 1, SliceEnd(s, n))

SliceFrom(s, n) == SubSeq(s, SliceEnd(s, n) + 1, Len(s))

ToSet(s) == {s[k] : k \in 1..Len(s)}

main_vars == <<lifecycle, modified, written, evg_conf, files, batch, report,
               grouped_entries, i, before, at_call, history, added, loaded,
               fetched, fn_args, fn_result, outcomes, fn_split>>

InitMain ==
    /\ pc = "validate"
    /\ config_tuple \in ConfigInputs
    /\ config = WholeConfig(config_tuple)
    /\ batch_size \in BatchSizes
    /\ dir_groups \in DirGroups
    /\ test_group = <<>>
    /\ batch_groups = <<>>
    /\ lifecycle = [p \in Patterns |-> IF p = "T" THEN {} ELSE {Tag2(TaskA, VariantV1)}]
    /\ loaded = lifecycle
    /\ before = lifecycle
    /\ at_call = lifecycle
    /\ modified = FALSE
    /\ written = FALSE
    /\ evg_conf = Topology({TaskA}, {TaskA}, {DistroD1})
    /\ files = {"T", "U", "S"}
    /\ batch = 1
    /\ report = {}
    /\ grouped_entries = {}
    /\ i = 0
    /\ history = {}
    /\ added = {}
    /\ fetched = FALSE
    /\ outcomes = <<>>
    /\ fn_args = <<>>
    /\ fn_result = <<>>
    /\ fn_split = <<>>

\* main(): "validate_config(config)"; an exception ends the run
ValidateConfig ==
    /\ pc = "validate"
    /\ pc' = IF validate_config(config_tuple) = "ok" THEN "for" ELSE "aborted"
    /\ UNCHANGED <<setup_vars, main_vars>>

\* create_batch_groups: "for test_group_name in test_groups"
ForGroup ==
    /\ pc = "for"
    /\ dir_groups # <<>>
    /\ test_group' = Head(dir_groups)
    /\ dir_groups' = Tail(dir_groups)
    /\ pc' = "while"
    /\ UNCHANGED <<config_tuple, config, batch_size, batch_groups, main_vars>>

\* create_batch_groups: "return batch_groups"
ReturnBatchGroups ==
    /\ pc = "for"
    /\ dir_groups = <<>>
    /\ pc' = "batch"
    /\ UNCHANGED <<setup_vars, main_vars>>

\* create_batch_groups: "while test_group"
WhileTestGroup ==
    /\ pc = "while"
    /\ pc' = IF test_group # <<>> THEN "body" ELSE "for"
    /\ UNCHANGED <<setup_vars, main_vars>>

\* create_batch_groups: the body of the while loop.  Of a list that grows
\* without end only the first MaxBatches batches are kept.
AppendBatch ==
    /\ pc = "body"
    /\ batch_groups' = IF Len(batch_groups) < MaxBatches
                       THEN Append(batch_groups, ToSet(SliceTo(test_group, batch_size)))
                       ELSE batch_groups
    /\ test_group' = SliceFrom(test_group, batch_size)
    /\ pc' = "while"
    /\ UNCHANGED <<config_tuple, config, batch_size, dir_groups, main_vars>>

NextMain ==
    \/ ValidateConfig
    \/ ForGroup
    \/ ReturnBatchGroups
    \/ WhileTestGroup
    \/ AppendBatch
    \/ Next

\* main() is one sequential process: it takes its next step whenever it has one.
SpecMain == InitMain /\ [][NextMain]_vars /\ WF_vars(NextMain)

----------------------------------------------------------------------------
(* SpecFn: unreliable_tag applied to every triple of bounded components,   *)
(* and _split_tag applied to its result                                    *)

FnTasks == {TaskA, TaskB, Str(<<"a", "|", "b">>), Missing, Wildcard("tasks")}
FnVariants == {VariantV1, VariantV2, Missing, Wildcard("variants")}
FnDistros == {DistroD1, DistroD2, Missing, Wildcard("distros")}

InitFn ==
    /\ pc = "fn_call"
    /\ fn_args \in FnTasks \X FnVariants \X FnDistros
    /\ fn_result = <<>>
    /\ lifecycle = [p \in Patterns |-> {}]
    /\ config_tuple = ConfigTuple(ScenarioConfig)
    /\ config = ScenarioConfig
    /\ batch_size = 1
    /\ dir_groups = <<>>
    /\ test_group = <<>>
    /\ batch_groups = <<>>
    /\ outcomes = <<>>
    /\ fn_split = <<>>
    /\ loaded = lifecycle
    /\ before = lifecycle
    /\ at_call = lifecycle
    /\ modified = FALSE
    /\ written = FALSE
    /\ evg_conf = [task_names |-> {}, variants |-> {}]
    /\ files = {}
    /\ batch = 1
    /\ report = {}
    /\ grouped_entries = {}
    /\ i = 0
    /\ history = {}
    /\ added = {}
    /\ fetched = FALSE

CallUnreliableTag ==
    /\ pc = "fn_call"
    /\ fn_result' = unreliable_tag(fn_args[1], fn_args[2], fn_args[3])
    /\ pc' = "fn_done"
    /\ UNCHANGED <<lifecycle, modified, written, evg_conf, files, batch, report,
                   grouped_entries, i, before, at_call, history, added, loaded, fetched,
                   fn_args>>
    /\ UNCHANGED <<setup_vars, outcomes, fn_split>>

\* _split_tag applied to the tag unreliable_tag returned
CallSplitTag ==
    /\ pc = "fn_done"
    /\ fn_split' = _split_tag(fn_result)
    /\ pc' = "fn_split"
    /\ UNCHANGED <<lifecycle, modified, written, evg_conf, files, batch, report,
                   grouped_entries, i, before, at_call, history, added, loaded, fetched,
                   fn_args, fn_result, setup_vars, outcomes>>

NextFn ==
    \/ CallUnreliableTag
    \/ CallSplitTag

SpecFn == InitFn /\ [][NextFn]_vars

----------------------------------------------------------------------------
(* Claims *)

\* The number of components of fn_args before the first sentinel.
ConcretePrefix ==
    CHOOSE k \in 0..3 :
        /\ \A j \in 1..k : ~IsSentinel(fn_args[j])
        /\ k < 3 => IsSentinel(fn_args[k + 1])

PrefixPiece(j) == IF j <= ConcretePrefix THEN Bar \o fn_args[j].chars ELSE <<>>

\* C3: unreliable_tag truncates at the first Wildcard / Missing component in
\* the order task, variant, distro: the tag is "unreliable" followed by
\* "|component" for each component before the first sentinel, and by nothing
\* else, even when a component after the first sentinel is concrete.
C3_TagTruncatesAtFirstSentinel ==
    pc = "fn_done" =>
        fn_result = Unreliable \o PrefixPiece(1) \o PrefixPiece(2) \o PrefixPiece(3)

\* C3 witness: a tag built from a concrete task, a Missing variant and a
\* concrete distro.
C3_Witness ==
    /\ pc = "fn_done"
    /\ fn_args = <<TaskA, Missing, DistroD1>>
    /\ fn_result = <<"unreliable", "|", "A">>

----------------------------------------------------------------------------
(* The summaries of a pass, and the predicates of the specification stated *)
(* on the counts of a summary.                                             *)

Runs(s) == s.num_pass + s.num_fail

SummaryTag(s) == unreliable_tag(s.task, s.variant, s.distro)

\* The summaries the unreliable / reliable check of pass k classifies, from
\* the locals of update_tags.
UnreliableSummaries(k) ==
    summarize_by(InPeriod(grouped_entries, end_date(report),
                          Config.unreliable_time_period),
                 PassComponents(k), FALSE)

ReliableSummaries(k) ==
    summarize_by(InPeriod(grouped_entries, end_date(report),
                          Config.reliable_time_period),
                 PassComponents(k), FALSE)

\* run count >= minimum-run and fail rate >= unacceptable threshold
IsUnreliable(s, k) ==
    /\ Runs(s) >= Config.unreliable_min_runs
    /\ s.num_fail * 100 >= PassRates(k).unacceptable.n * Runs(s)

\* run count < minimum-run or fail rate <= acceptable threshold
IsReliable(s, k) ==
    \/ Runs(s) < Config.reliable_min_runs
    \/ s.num_fail * 100 <= PassRates(k).acceptable.n * Runs(s)

\* The unreliable check of pass i has just run / the reliable check of
\* pass i - 1 has just run.
AfterAdd == pc = "remove"
AfterRemove == (pc = "add" /\ i > 0) \/ pc = "return"

----------------------------------------------------------------------------
(* cleanup_tags: claims C4, C5 and C10 *)

AfterCleanup == pc = "persist"

\* The relevance check of the specification, on the shape of the tag: the
\* task exists; a variant exists and lists the task; a distro exists under
\* that variant.
PassesRelevanceCheck(tag) ==
    \/ \E task \in evg_conf.task_names : tag = Tag1(task)
    \/ \E task \in evg_conf.task_names : \E v \in evg_conf.variants :
          /\ task \in v.task_names
          /\ \/ tag = Tag2(task, v.name)
             \/ \E distro \in v.distros : tag = Tag3(task, v.name, distro)

\* C4: after cleanup_tags, the tags kept on a pattern that matches a file
\* are exactly the tags it had that pass the relevance check.
C4_KeepsExactlyRelevantTags ==
    AfterCleanup =>
        \A p \in files : lifecycle[p] = {tag \in before[p] : PassesRelevanceCheck(tag)}

\* C4 witness: no history was fetched in the run, d1 is not a distro of v1
\* although v1 runs task A, and "unreliable|A|v1|d1" was removed from T
\* while "unreliable|A|v1" was kept.
C4_Witness ==
    /\ AfterCleanup
    /\ ~fetched
    /\ "T" \in files
    /\ \E v \in evg_conf.variants :
          v.name = VariantV1 /\ TaskA \in v.task_names /\ DistroD1 \notin v.distros
    /\ Tag3(TaskA, VariantV1, DistroD1) \in before["T"] \ lifecycle["T"]
    /\ Tag2(TaskA, VariantV1) \in lifecycle["T"]

\* The task, variant and distro a tag names all exist in the topology (the
\* bare "unreliable" tag names none).
NamedComponentsExist(tag) == tag = Unreliable \/ PassesRelevanceCheck(tag)

\* C5: every tag update_tags added in the run that is on a pattern matching
\* a file when cleanup_tags starts, and whose named components exist in the
\* topology, is still on the pattern after cleanup_tags.
C5_AddedTagsSurviveCleanup ==
    AfterCleanup =>
        \A a \in added :
            (a[1] \in files /\ a[2] \in before[a[1]] /\ NamedComponentsExist(a[2]))
                => a[2] \in lifecycle[a[1]]

\* C10: a second cleanup_tags on the result of the first changes nothing:
\* every remaining pattern matches a file and every remaining tag passes
\* the relevance check.
C10_CleanupIdempotent ==
    AfterCleanup =>
        /\ cleanup_tags(lifecycle, evg_conf, files) = lifecycle
        /\ \A p \in get_test_patterns(lifecycle) :
              /\ p \in files
              /\ \A tag \in lifecycle[p] : PassesRelevanceCheck(tag)

\* C10 witness: the first cleanup_tags removed a pattern that matches no
\* file and a tag of a pattern that does, and kept another tag.
C10_Witness ==
    /\ AfterCleanup
    /\ "S" \notin files /\ before["S"] # {} /\ lifecycle["S"] = {}
    /\ before["T"] \ lifecycle["T"] # {}
    /\ lifecycle["T"] # {}

----------------------------------------------------------------------------
(* update_tags: claims C6, C7 and C8 *)

\* The summaries of the raw history at the granularity of pass k, inside
\* the unreliable / reliable time period.
RawUnreliableSummaries(k) ==
    summarize_by(InPeriod(history, end_date(history), Config.unreliable_time_period),
                 PassComponents(k), FALSE)

RawReliableSummaries(k) ==
    summarize_by(InPeriod(history, end_date(history), Config.reliable_time_period),
                 PassComponents(k), FALSE)

SameCombination(s, t) ==
    /\ s.test = t.test
    /\ s.task = t.task
    /\ s.variant = t.variant
    /\ s.distro = t.distro

\* (T, A) has 25 runs with 6 failures inside the unreliable period and
\* 3 runs with 0 failures inside the reliable period.
ScenarioC6 ==
    /\ history # {}
    /\ \E s \in RawUnreliableSummaries(2) :
          s.test = "T" /\ s.task = TaskA /\ Runs(s) = 25 /\ s.num_fail = 6
    /\ \E s \in RawReliableSummaries(2) :
          s.test = "T" /\ s.task = TaskA /\ Runs(s) = 3 /\ s.num_fail = 0

\* C6 as stated: in the scenario "unreliable|A" is on T when update_tags
\* returns.
C6_ScenarioTagPresent ==
    (pc = "return" /\ ScenarioC6) => Tag1(TaskA) \in lifecycle["T"]

\* C6 amended: in the scenario the task pass triggers both outcomes:
\* "unreliable|A" is on T after the unreliable check of the task pass, and
\* off T after its reliable check (3 runs < 5) and when update_tags returns.
C6_ScenarioTagAddedThenRemoved ==
    ScenarioC6 =>
        /\ (pc = "remove" /\ i = 2) => Tag1(TaskA) \in lifecycle["T"]
        /\ ((pc = "add" /\ i = 3) \/ pc = "return") => Tag1(TaskA) \notin lifecycle["T"]

\* C6 witness: the reliable check of the task pass has just removed the
\* tag that the unreliable check of the same pass had added to T.
C6_Witness ==
    /\ ScenarioC6
    /\ pc = "add" /\ i = 3
    /\ Tag1(TaskA) \notin at_call["T"]
    /\ <<"T", Tag1(TaskA)>> \in added
    /\ Tag1(TaskA) \in before["T"] \ lifecycle["T"]

\* The unreliable-period summaries of pass k that satisfy the unreliable
\* predicate and whose combination satisfies the reliable predicate over
\* the reliable period.
BothDecisions(k) ==
    {su \in UnreliableSummaries(k) :
        /\ IsUnreliable(su, k)
        /\ \E sr \in ReliableSummaries(k) : SameCombination(su, sr) /\ IsReliable(sr, k)}

\* C7: in each pass the additions come before the removals: the tag of a
\* combination that satisfies both predicates is on the test after the
\* unreliable check and off the test after the reliable check of the pass.
C7_AddedThenRemoved ==
    /\ AfterAdd => \A s \in BothDecisions(i) : SummaryTag(s) \in lifecycle[s.test]
    /\ AfterRemove => \A s \in BothDecisions(i - 1) : SummaryTag(s) \notin lifecycle[s.test]

\* C7 witness: a pass has ended, a combination of it satisfies both
\* predicates, its tag was not on the test before update_tags, was added
\* during the call and is off the test.
C7_Witness ==
    /\ AfterRemove
    /\ \E s \in BothDecisions(i - 1) :
          /\ SummaryTag(s) \notin at_call[s.test]
          /\ <<s.test, SummaryTag(s)>> \in added
          /\ SummaryTag(s) \in before[s.test] \ lifecycle[s.test]

\* The combinations of pass k on which no decision is taken: neither the
\* unreliable predicate on the unreliable-period summary nor the reliable
\* predicate on the reliable-period summary.
NoDecision(k) ==
    {su \in RawUnreliableSummaries(k) :
        /\ ~IsUnreliable(su, k)
        /\ \E sr \in RawReliableSummaries(k) : SameCombination(su, sr) /\ ~IsReliable(sr, k)}

\* Some combination of some pass that maps to 'tag' on 'test' satisfies a
\* predicate.
DecisionOnTag(test, tag) ==
    \E k \in 0..3 :
        \/ \E s \in RawUnreliableSummaries(k) :
              s.test = test /\ SummaryTag(s) = tag /\ IsUnreliable(s, k)
        \/ \E s \in RawReliableSummaries(k) :
              s.test = test /\ SummaryTag(s) = tag /\ IsReliable(s, k)

Unchanged(test, tag) == (tag \in lifecycle[test]) <=> (tag \in at_call[test])

\* C8 as stated: the tag of a combination on which no decision is taken is
\* on the test after update_tags iff it was before.
C8_NoDecisionKeepsTag ==
    pc = "return" =>
        \A k \in 0..3 : \A s \in NoDecision(k) : Unchanged(s.test, SummaryTag(s))

\* C8 amended: the tag of a combination on which no decision is taken is on
\* the test after update_tags iff it was before, provided no combination of
\* the call that maps to the same tag satisfies a predicate.
C8_NoDecisionOnTagKeepsTag ==
    pc = "return" =>
        \A k \in 0..3 : \A s \in NoDecision(k) :
            ~DecisionOnTag(s.test, SummaryTag(s)) => Unchanged(s.test, SummaryTag(s))

\* C8 witness: no decision is taken on a combination with enough runs and
\* a fail rate strictly between the thresholds, the call changed another
\* tag of the test, and the combination's tag is still on the test.
C8_Witness ==
    /\ pc = "return"
    /\ lifecycle # at_call
    /\ \E k \in 0..3 : \E s \in NoDecision(k) :
          /\ ~DecisionOnTag(s.test, SummaryTag(s))
          /\ Runs(s) >= Config.unreliable_min_runs
          /\ SummaryTag(s) \in lifecycle[s.test]
          /\ SummaryTag(s) \in at_call[s.test]

----------------------------------------------------------------------------
(* The write of the tag file: claim C9 *)

----------------------------------------------------------------------------
(* C11: validation of the configuration *)

\* a rate outside [0, 1]
OutsideUnitInterval(rate) == rate.n < 0 \/ rate.n > rate.d

\* acceptable > unacceptable
InvertedPair(fail_rates) ==
    fail_rates.acceptable.n * fail_rates.unacceptable.d
        > fail_rates.unacceptable.n * fail_rates.acceptable.d

\* a number of runs that is not a positive whole number
NotPositiveWhole(min_runs) == min_runs.n <= 0 \/ min_runs.n % min_runs.d # 0

\* a time period that is not a positive whole number of days
NotPositiveDays(time_period) ==
    time_period.days * 86400 + time_period.seconds <= 0 \/ time_period.seconds # 0

\* The Config tuple of the run has one of the defects C11 lists.
Defective ==
    \/ \E f \in RateFields :
          \/ InvertedPair(config_tuple[f])
          \/ OutsideUnitInterval(config_tuple[f].acceptable)
          \/ OutsideUnitInterval(config_tuple[f].unacceptable)
    \/ \E f \in MinRunsFields : NotPositiveWhole(config_tuple[f])
    \/ \E f \in TimePeriodFields : NotPositiveDays(config_tuple[f])

----------------------------------------------------------------------------
(* C12: the passes of update_tags against the raw records *)

\* The granularity of pass k, the finest first.
Granularity(k) ==
    {"test"} \cup (IF k <= 2 THEN {"task"} ELSE {})
             \cup (IF k <= 1 THEN {"variant"} ELSE {})
             \cup (IF k = 0 THEN {"distro"} ELSE {})

\* The raw records of the call grouped directly at granularity k, inside
\* the time period that ends with the latest record.
DirectSummaries(k, time_period) ==
    summarize_by({e \in history : e.start_date >= end_date(history) - time_period + 1},
                 Granularity(k), FALSE)

\* keys, total pass count and total fail count of summaries
Counted(summaries) ==
    {[test |-> s.test, task |-> s.task, variant |-> s.variant, distro |-> s.distro,
      num_pass |-> s.num_pass, num_fail |-> s.num_fail] : s \in summaries}

\* C12: pass i of update_tags works at the i-th finest granularity, on the
\* daily grouping of the previous pass (on the raw records for pass 0), and
\* the summaries it classifies in the unreliable and in the reliable window
\* have the keys and the pass and fail counts of the raw records grouped
\* directly at that granularity.
C12_PassesMatchDirectGrouping ==
    pc = "remove" =>
        /\ PassComponents(i) = Granularity(i)
        /\ report = IF i = 0 THEN history
                    ELSE summarize_by(history, Granularity(i - 1), TRUE)
        /\ Counted(UnreliableSummaries(i))
             = Counted(DirectSummaries(i, Config.unreliable_time_period))
        /\ Counted(ReliableSummaries(i))
             = Counted(DirectSummaries(i, Config.reliable_time_period))

\* The test pass (the fourth) has classified one summary that adds up two
\* raw records of different days, tasks, variants or distros.
C12_Witness ==
    /\ pc = "remove"
    /\ i = 3
    /\ Cardinality(history) = 2
    /\ Cardinality(grouped_entries) = 2
    /\ \E s \in UnreliableSummaries(3) : Runs(s) > 22

----------------------------------------------------------------------------
(* C13: batches without an owning task *)

\* C13: the batches are taken one after another, each finished before the
\* next is reached; a batch without an owning task is skipped with nothing
\* fetched and no tag mutated, the batches after it are still reached, and
\* cleanup_tags runs once every batch has been skipped or processed.
C13_SkippedBatchOnlyWarns ==
    /\ pc = "batch" => Len(outcomes) = batch - 1
    /\ pc \in {"add", "remove", "return"} =>
          /\ Len(outcomes) = batch
          /\ outcomes[batch] = "processed"
    /\ (pc = "batch" /\ batch > 1 /\ outcomes[batch - 1] = "skipped") =>
          /\ lifecycle = before
          /\ history = {}
    /\ (pc = "batch" /\ \A k \in 1..Len(outcomes) : outcomes[k] = "skipped") =>
          /\ ~fetched
          /\ lifecycle = loaded
          /\ ~modified
    /\ pc \in {"persist", "done"} => Len(outcomes) = Len(test_groups)

\* The first batch was skipped, the second was processed and added a tag,
\* and the run has ended after cleanup_tags.
C13_Witness ==
    /\ pc = "done"
    /\ outcomes = <<"skipped", "processed">>
    /\ fetched
    /\ added # {}

----------------------------------------------------------------------------
(* C14: termination *)

\* C14: every run comes to its end: main() returns after the conditional
\* write of the tag file, or validate_config has raised.
C14_EveryRunTerminates == <>(pc \in {"done", "aborted"})

\* The same, for the runs whose request batch size is at least 1.
C14_PositiveBatchSizeTerminates == batch_size >= 1 => <>(pc \in {"done", "aborted"})

----------------------------------------------------------------------------
(* C15: _split_tag after unreliable_tag *)

\* The components of fn_args before the first sentinel, in order, and None
\* in every position from the first sentinel on.
PrefixComponents == [k \in 1..3 |-> IF k <= ConcretePrefix THEN fn_args[k] ELSE None]

\* C15: _split_tag(unreliable_tag(task, variant, distro)) is the tuple of
\* the concrete components before the first sentinel, in order, with None
\* in every remaining position.
C15_SplitRecoversPrefix == pc = "fn_split" => fn_split = PrefixComponents

\* The same, for the triples whose components before the first sentinel
\* contain no "|".
C15_SplitRecoversPrefixWithoutBar ==
    (/\ pc = "fn_split"
     /\ \A k \in 1..ConcretePrefix :
           \A j \in 1..Len(fn_args[k].chars) : fn_args[k].chars[j] # "|")
        => fn_split = PrefixComponents

\* A concrete task and variant with a Missing distro came back as
\* (task, variant, None).
C15_Witness ==
    /\ pc = "fn_split"
    /\ fn_args = <<TaskA, VariantV1, Missing>>
    /\ fn_split = <<TaskA, VariantV1, None>>

====
